---- MODULE Spec2Model ----
(***************************************************************************)
(* A model of orkes-io/go-httpfixture (src/httpfixture.go, the current     *)
(* variant of the package at lines 190-472): fixture constructors, request *)
(* assertions, memFixture.Run, NewServer's route table and                 *)
(* Server.ServeHTTP.  The Seq fixture and the OK constructor, which the    *)
(* tests in src/README.md use but whose code is not in src/, are modelled  *)
(* from spec.md.                                                           *)
(*                                                                         *)
(* Strings are sequences of one-character strings, byte slices are         *)
(* sequences of integers in 0..255.                                        *)
(***************************************************************************)
EXTENDS Integers, Sequences, FiniteSets, TLC

VARIABLES
    fixtures,   \* the fixtures NewServer was given, in argument order
    routes,     \* Server.routes: routesKey -> index into fixtures
    failed,     \* testing.T: Failed()
    nlogs,      \* testing.T: number of lines logged with Logf
    served,     \* number of requests handed to ServeHTTP so far
    last,       \* what the most recently finished ServeHTTP call did
    pc,         \* per connection: where its handler stands in Seq's Run
    cur,        \* per connection: the request being handled
    idx,        \* per connection: the cursor value its Run read
    callNo,     \* per connection: the number of its Seq invocation
    solo,       \* per connection: no other Seq invocation overlapped it
    cursor,     \* the Seq fixture's cursor
    mu,         \* the Seq fixture's lock: 0, or the connection holding it
    seqCalls,   \* Seq invocations started
    seqAdvanced,\* Seq invocations that went through the advance step
    seqDone,    \* Seq invocations finished
    claimed,    \* slot -> how many invocations read the cursor just before it
    built,      \* a route handed to standardizePath or to a constructor, and
                \* what came of it
    probe       \* a fixture run directly on one request object, call by call

srvVars == <<fixtures, routes, failed, nlogs, served, last>>
seqVars == <<pc, cur, idx, callNo, solo, cursor, mu, seqCalls, seqAdvanced,
             seqDone, claimed>>
auxVars == <<built, probe>>
vars == <<fixtures, routes, failed, nlogs, served, last, pc, cur, idx, callNo,
          solo, cursor, mu, seqCalls, seqAdvanced, seqDone, claimed, built,
          probe>>

---------------------------------------------------------------------------
\* Bounds of the model.

\* Requests handed to the server in one behaviour of Spec.
MaxRequests == 2
\* Longest request body.
MaxBody == 2
\* Requests handed to the server in one behaviour of SpecSeq.
MaxSeqRequests == 4
\* Most sub-fixtures of the Seq fixture.
MaxSubs == 2
MaxPath == 3
MaxRuns == 2

\* Connections served in parallel (net/http runs one goroutine per connection).
Conns == {1, 2}

---------------------------------------------------------------------------
\* Strings, bytes.

Min(a, b) == IF a < b THEN a ELSE b

\* http.MethodGet, http.MethodPost, and the wildcard of spec.md
MethodGet == <<"G", "E", "T">>
MethodPost == <<"P", "O", "S", "T">>
Wildcard == <<"*">>

PathP == <<"/", "p">>
PathPSub == <<"/", "p", "/", "s">>
PathOther == <<"/", "o">>

\* http.StatusOK, http.StatusCreated, http.StatusNotFound
StatusOK == 200
StatusCreated == 201
StatusNotFound == 404

\* The bytes of "404 page not found\n", which http.NotFound writes.
NotFoundBody ==
    <<52, 48, 52, 32, 112, 97, 103, 101, 32, 110, 111, 116, 32, 102, 111,
      117, 110, 100, 10>>

\* n zero bytes: make([]byte, n)
Zeros(n) == [i \in 1..n |-> 0]

\* bytes.Contains(hay, needle)
Contains(hay, needle) ==
    \E i \in 0..(Len(hay) - Len(needle)) :
        SubSeq(hay, i + 1, i + Len(needle)) = needle

\* The simple case folding strings.EqualFold applies, on the letters used here.
Fold(c) == IF c = "J" THEN "j" ELSE IF c = "X" THEN "x" ELSE c

\* A comparison that tells the cases apart.
EqualExact(a, b) == a = b

\* strings.EqualFold(a, b)
EqualFold(a, b) ==
    /\ Len(a) = Len(b)
    /\ \A i \in 1..Len(a) : Fold(a[i]) = Fold(b[i])

\* routesKey: fmt.Sprintf("%s:%s", method, route)
routesKey(method, route) == method \o <<":">> \o route

\* standardizePath that puts a slash before every path.
standardizePathAlways(path) == <<"/">> \o path

\* standardizePath
standardizePath(path) ==
    IF Len(path) = 0 THEN <<"/">>
    ELSE IF path[1] = "/" THEN path
    ELSE <<"/">> \o path

---------------------------------------------------------------------------
\* Requests.

HeaderKey == "Content-Type"
HeaderKeys == {HeaderKey}
HeaderJson == <<"j">>

\* Header multimaps of the requests: no Content-Type (Values gives an empty
\* list), one value, two values.
NoHeader == [k \in HeaderKeys |-> <<>>]

Headers ==
    { NoHeader,
      [k \in HeaderKeys |-> <<HeaderJson>>],
      [k \in HeaderKeys |-> << <<"x">>, <<"J">> >>] }

Bytes01 == {0, 1}

Bodies == UNION { [1..n -> Bytes01] : n \in 0..MaxBody }

\* A request as the handler sees it.  contentLength is req.ContentLength: the
\* declared length, or -1 when the length is unknown (a chunked request).
\* bodyErr: reading req.Body ends in an error instead of io.EOF.
Request(method, path, header, body, contentLength, bodyErr) ==
    [ urlNil |-> FALSE, method |-> method, path |-> path, header |-> header,
      body |-> body, contentLength |-> contentLength, bodyErr |-> bodyErr ]

\* A request whose URL is nil (only a hand-built request has one).
NilURLRequest ==
    [ urlNil |-> TRUE, method |-> MethodGet, path |-> <<>>,
      header |-> NoHeader, body |-> <<>>, contentLength |-> 0,
      bodyErr |-> FALSE ]

\* The requests sent to the server.  Every method and path, without headers
\* or body; and for GET /p every header set and every body, the declared
\* length being the body's, or unknown, or 0 whatever the body; and for GET /p
\* every body whose reading ends in an error.
Requests ==
    { Request(m, p, NoHeader, <<>>, 0, FALSE) :
        m \in {MethodGet, MethodPost}, p \in {PathP, PathPSub, PathOther} } \cup
    UNION { { Request(MethodGet, PathP, h, b, cl, FALSE) :
                h \in Headers, cl \in {-1, 0, Len(b)} } : b \in Bodies } \cup
    { Request(MethodGet, PathP, NoHeader, b, Len(b), TRUE) : b \in Bodies }

\* req.Header.Values(key)
HeaderValues(req, key) ==
    IF key \in DOMAIN req.header THEN req.header[key] ELSE <<>>

---------------------------------------------------------------------------
\* Assertions and fixture constructors.

\* AssertHeaderMatches(key, value), as the FixtureOpt's assertion
AssertHeaderMatches(key, value) ==
    [ kind |-> "header", key |-> key, value |-> value, b |-> <<>> ]

\* AssertBodyContainsBytes(b), as the FixtureOpt's assertion
AssertBodyContainsBytes(b) ==
    [ kind |-> "body", key |-> "", value |-> <<>>, b |-> b ]

\* The closure AssertHeaderMatches appends, run on req.
RunHeaderAssert(a, req) ==
    LET vals == HeaderValues(req, a.key) IN
    [ outcome |-> IF \E i \in 1..Len(vals) : EqualFold(vals[i], a.value)
                  THEN "ok" ELSE "fail",
      req |-> req ]

\* The closure AssertBodyContainsBytes appends, run on req.
\* make([]byte, req.ContentLength) panics on a negative length; otherwise the
\* buffer starts out holding ContentLength zero bytes, the tee appends every
\* byte read from the old body to it, and the buffer becomes req.Body.
RunBodyAssert(a, req) ==
    IF req.contentLength < 0
    THEN [ outcome |-> "panic", req |-> req ]
    ELSE LET bodyBytes == req.body
             buf == Zeros(req.contentLength) \o bodyBytes
         IN [ outcome |-> IF req.bodyErr THEN "fail"
                          ELSE IF ~Contains(bodyBytes, a.b) THEN "fail"
                          ELSE "ok",
              req |-> [req EXCEPT !.body = buf, !.bodyErr = FALSE] ]

\* assert: a(req)
RunAssert(a, req) ==
    IF a.kind = "header" THEN RunHeaderAssert(a, req) ELSE RunBodyAssert(a, req)

RECURSIVE ApplyOpts(_, _)
\* base: for _, opt := range opts { opt(&bf) }
ApplyOpts(bf, opts) ==
    IF opts = <<>> THEN bf
    ELSE ApplyOpts([bf EXCEPT !.assertions = Append(@, Head(opts))], Tail(opts))

\* base
base(route, method, responseCode, opts) ==
    ApplyOpts([ route |-> standardizePath(route), method |-> method,
                responseCode |-> responseCode, assertions |-> <<>> ], opts)

\* Bytes: a memFixture
Bytes(route, method, responseCode, body, opts) ==
    LET bf == base(route, method, responseCode, opts) IN
    [ kind |-> "mem", route |-> bf.route, method |-> bf.method,
      responseCode |-> bf.responseCode, assertions |-> bf.assertions,
      body |-> body, subs |-> <<>> ]

\* BytesOK
BytesOK(route, method, body, opts) == Bytes(route, method, StatusOK, body, opts)

\* GetBytesOK (GetOK converts its string body and calls it)
GetBytesOK(route, body, opts) == BytesOK(route, MethodGet, body, opts)

\* Reader: a memFixture whose body is what io.ReadAll(reader) gave; b stands for
\* a reader that is read to its end without an error.
Reader(route, method, responseCode, b, opts) ==
    LET bf == base(route, method, responseCode, opts) IN
    [ kind |-> "mem", route |-> bf.route, method |-> bf.method,
      responseCode |-> bf.responseCode, assertions |-> bf.assertions,
      body |-> b, subs |-> <<>> ]

\* File: Reader on the opened file; contents stands for a file that opens.
File(route, method, responseCode, contents, opts) ==
    Reader(route, method, responseCode, contents, opts)

\* FileOK
FileOK(route, method, contents, opts) ==
    File(route, method, StatusOK, contents, opts)

\* GetFileOK
GetFileOK(route, contents, opts) == FileOK(route, MethodGet, contents, opts)

\* baseFixture.Route
Route(f) == f.route

\* baseFixture.Method
Method(f) == f.method

---------------------------------------------------------------------------
\* Running a fixture.

RECURSIVE AssertLoop(_, _, _, _, _)
\* assertAll's loop from assertion i on: every assertion runs on the request the
\* one before left, a failure is joined to errs, a panic unwinds the loop.
AssertLoop(assertions, i, req, nerrs, trace) ==
    IF i > Len(assertions)
    THEN [ req |-> req, nerrs |-> nerrs, trace |-> trace, panicked |-> FALSE ]
    ELSE LET r == RunAssert(assertions[i], req)
             t == Append(trace, [i |-> i, outcome |-> r.outcome])
         IN IF r.outcome = "panic"
            THEN [ req |-> r.req, nerrs |-> nerrs, trace |-> t,
                   panicked |-> TRUE ]
            ELSE AssertLoop(assertions, i + 1, r.req,
                            nerrs + (IF r.outcome = "fail" THEN 1 ELSE 0), t)

\* baseFixture.assertAll: logged and marked are the calls of t.Logf and t.Fail
assertAll(bf, req) ==
    LET r == AssertLoop(bf.assertions, 1, req, 0, <<>>) IN
    [ req |-> r.req, nerrs |-> r.nerrs, trace |-> r.trace,
      panicked |-> r.panicked,
      logged |-> IF ~r.panicked /\ r.nerrs > 0 THEN 1 ELSE 0,
      marked |-> IF ~r.panicked /\ r.nerrs > 0 THEN 1 ELSE 0 ]

\* No response: what a handler that panicked, or wrote nothing, leaves.
NoResp == [ code |-> 0, body |-> <<>> ]

\* baseFixture.response
response(bf) == [ code |-> bf.responseCode, body |-> <<>> ]

\* memFixture.Run: the assertions, then the response with the fixture's body.
\* fix is the fixture as the call leaves it.
memFixtureRun(s, req) ==
    LET a == assertAll(s, req) IN
    [ returned |-> ~a.panicked,
      resp |-> IF a.panicked THEN NoResp
               ELSE [response(s) EXCEPT !.body = s.body],
      req |-> a.req, nerrs |-> a.nerrs, trace |-> a.trace,
      panicked |-> a.panicked, logged |-> a.logged, marked |-> a.marked,
      fix |-> s ]

RECURSIVE NewServerLoop(_, _, _)
\* NewServer's loop: result.routes[routesKey(f.Method(), f.Route())] = f
NewServerLoop(fs, i, m) ==
    IF i > Len(fs) THEN m
    ELSE LET k == routesKey(Method(fs[i]), Route(fs[i])) IN
         NewServerLoop(fs, i + 1,
             [x \in DOMAIN m \cup {k} |-> IF x = k THEN i ELSE m[x]])

\* NewServer: the route table
NewServer(fs) == NewServerLoop(fs, 1, [x \in {} |-> 0])

\* s.routes[routesKey(req.Method, req.URL.Path)]: the fixture's index, 0 for !ok
Lookup(m, req) ==
    LET k == routesKey(req.method, req.path) IN
    IF k \in DOMAIN m THEN m[k] ELSE 0

\* A 404 without the body http.NotFound writes, as rw.WriteHeader(404) gives.
NotFoundBare == [ code |-> StatusNotFound, body |-> <<>> ]

\* http.NotFound(rw, req)
NotFound == [ code |-> StatusNotFound, body |-> NotFoundBody ]

---------------------------------------------------------------------------
\* The server's fixtures.

\* Response bodies.
Body1 == <<7>>
Body2 == <<8, 9>>

HeaderOpt == AssertHeaderMatches(HeaderKey, HeaderJson)
BodyOpt1 == AssertBodyContainsBytes(<<1>>)
BodyOpt0 == AssertBodyContainsBytes(<<0>>)

\* The argument lists NewServer is given in Spec.
Configs ==
    { << GetBytesOK(PathP, Body1, <<>>) >>,
      << BytesOK(PathP, Wildcard, Body1, <<>>) >>,
      << GetBytesOK(PathP, Body1, <<>>), GetBytesOK(<<"p">>, Body2, <<>>) >>,
      << BytesOK(PathP, Wildcard, Body2, <<>>), GetBytesOK(PathP, Body1, <<>>) >>,
      << GetBytesOK(PathP, Body1, <<>>), GetBytesOK(PathPSub, Body2, <<>>) >>,
      << Bytes(PathP, MethodGet, StatusCreated, Body2, <<BodyOpt1>>) >>,
      << Bytes(PathP, MethodGet, StatusOK, Body1, <<HeaderOpt, BodyOpt1>>),
         GetBytesOK(PathPSub, <<>>, <<HeaderOpt>>) >>,
      << Bytes(PathP, MethodGet, StatusOK, Body1, <<BodyOpt1, HeaderOpt>>) >>,
      << Bytes(PathP, MethodGet, StatusOK, Body1, <<BodyOpt1, BodyOpt0>>) >> }

---------------------------------------------------------------------------
\* Server.ServeHTTP.

\* What a ServeHTTP call did: the request, the fixture it was dispatched to
\* (0: none), what the fixture's Run did, and what went onto the connection.
NoObs ==
    [ kind |-> "none", req |-> NilURLRequest, f |-> 0, returned |-> FALSE,
      resp |-> NoResp, reqAfter |-> NilURLRequest, nerrs |-> 0, trace |-> <<>>,
      panicked |-> FALSE, logged |-> 0, marked |-> 0, wire |-> NoResp,
      copyFailed |-> FALSE, failedBefore |-> FALSE, failedAfter |-> FALSE,
      sub |-> 0, callNo |-> 0, solo |-> FALSE ]

\* A handler whose failed mark tells of the request at hand only: a request
\* that passes clears it.
AfterRunForgetful(obs, r, copyErr) ==
    LET copyFailed == r.returned /\ copyErr /\ Len(r.resp.body) > 0 IN
    [ obs EXCEPT
        !.returned = r.returned, !.resp = r.resp, !.reqAfter = r.req,
        !.nerrs = r.nerrs, !.trace = r.trace, !.panicked = r.panicked,
        !.logged = r.logged, !.marked = r.marked,
        !.copyFailed = copyFailed,
        !.wire = IF ~r.returned THEN NoResp
                 ELSE [ code |-> r.resp.code,
                        body |-> IF copyFailed THEN <<>> ELSE r.resp.body ],
        !.failedAfter = r.marked > 0 \/ copyFailed ]

\* ServeHTTP from f.Run's return on: nothing is written when Run did not
\* return a response; otherwise the status, then the body is copied, and a
\* copy that fails (copyErr, and there are bytes to write) is logged and
\* marks the test failed; nothing of the body is taken to have reached the
\* connection then.  The loop over resp.Header adds to resp.Header itself, and
\* a memFixture's response has no header: it writes nothing.
AfterRun(obs, r, copyErr) ==
    LET copyFailed == r.returned /\ copyErr /\ Len(r.resp.body) > 0 IN
    [ obs EXCEPT
        !.returned = r.returned, !.resp = r.resp, !.reqAfter = r.req,
        !.nerrs = r.nerrs, !.trace = r.trace, !.panicked = r.panicked,
        !.logged = r.logged, !.marked = r.marked,
        !.copyFailed = copyFailed,
        !.wire = IF ~r.returned THEN NoResp
                 ELSE [ code |-> r.resp.code,
                        body |-> IF copyFailed THEN <<>> ELSE r.resp.body ],
        !.failedAfter = obs.failedBefore \/ r.marked > 0 \/ copyFailed ]

\* ServeHTTP for a request that is not dispatched to a Seq fixture.
Handle(fs, m, wasFailed, req, copyErr) ==
    LET obs == [ NoObs EXCEPT !.req = req, !.reqAfter = req,
                              !.failedBefore = wasFailed,
                              !.failedAfter = wasFailed ]
    IN IF req.urlNil
       THEN [ obs EXCEPT !.kind = "nilurl", !.failedAfter = TRUE ]
       ELSE LET i == Lookup(m, req) IN
            IF i = 0
            THEN [ obs EXCEPT !.kind = "miss", !.wire = NotFound ]
            ELSE AfterRun([ obs EXCEPT !.kind = "run", !.f = i ],
                          memFixtureRun(fs[i], req), copyErr)

\* Lines the handler logged: the nil URL, the assertions' aggregate, the copy.
LogLines(obs) ==
    (IF obs.kind = "nilurl" THEN 1 ELSE 0) + obs.logged
        + (IF obs.copyFailed THEN 1 ELSE 0)

IsSeq(fs, m, req) ==
    /\ ~req.urlNil
    /\ Lookup(m, req) # 0
    /\ fs[Lookup(m, req)].kind = "seq"

\* Whether copying the response to the connection fails: only a copy that has
\* bytes to write can.
CopyOutcomes(fs, m, req) ==
    IF ~req.urlNil /\ Lookup(m, req) # 0 /\ fs[Lookup(m, req)].body # <<>>
    THEN BOOLEAN ELSE {FALSE}

\* One request, handled from beginning to end.
ServeHTTP(reqs, max) ==
    /\ served < max
    /\ \E req \in reqs : \E copyErr \in CopyOutcomes(fixtures, routes, req) :
        /\ ~IsSeq(fixtures, routes, req)
        /\ last' = Handle(fixtures, routes, failed, req, copyErr)
        /\ failed' = last'.failedAfter
        /\ nlogs' = nlogs + LogLines(last')
        /\ fixtures' = IF last'.kind = "run"
                       THEN [fixtures EXCEPT
                               ![last'.f] = memFixtureRun(fixtures[last'.f], req).fix]
                       ELSE fixtures
        /\ served' = served + 1
        /\ UNCHANGED auxVars
        /\ UNCHANGED <<routes, seqVars>>

AllRequests == Requests \cup {NilURLRequest}

InitSeqVars ==
    /\ pc = [p \in Conns |-> "idle"]
    /\ cur = [p \in Conns |-> NilURLRequest]
    /\ idx = [p \in Conns |-> 0]
    /\ callNo = [p \in Conns |-> 0]
    /\ solo = [p \in Conns |-> FALSE]
    /\ cursor = 0
    /\ mu = 0
    /\ seqCalls = 0
    /\ seqAdvanced = 0
    /\ seqDone = 0
    /\ claimed = [k \in 1..MaxSubs |-> 0]

\* No fixture constructed yet.
NoFixture ==
    [ kind |-> "none", route |-> <<>>, method |-> <<>>, responseCode |-> 0,
      assertions |-> <<>>, body |-> <<>>, subs |-> <<>> ]

\* No route handed to standardizePath or to a constructor.
NoBuilt ==
    [ stage |-> "none", ctor |-> "", route |-> <<>>, out |-> <<>>,
      again |-> <<>>, fixture |-> NoFixture ]

\* No fixture run directly.
NoProbe == [ fix |-> NoFixture, req0 |-> NilURLRequest, req |-> NilURLRequest,
             runs |-> <<>> ]

InitAuxVars ==
    /\ built = NoBuilt
    /\ probe = NoProbe

---------------------------------------------------------------------------
\* The Seq fixture (spec.md, sections 3 and 5; src/README.md, TestSeq).

\* OK(route, body): any method, status 200
OK(route, body) == BytesOK(route, Wildcard, body, <<>>)

\* Seq(route, method, subs...): the sub-fixtures in order; the cursor starts
\* before the first.  (Named SeqFixture: Sequences defines Seq.)
SeqFixture(route, method, subs) ==
    [ kind |-> "seq", route |-> standardizePath(route), method |-> method,
      responseCode |-> StatusOK, assertions |-> <<>>, body |-> <<>>,
      subs |-> subs ]

SubBody(k) == <<10 + k>>

\* The argument lists NewServer is given in SpecSeq: a Seq fixture of n
\* sub-fixtures at GET /p, alone or before a static fixture.
SeqConfigs ==
    { << SeqFixture(PathP, MethodGet, [k \in 1..n |-> OK(<<>>, SubBody(k))]) >> :
        n \in 1..MaxSubs } \cup
    { << SeqFixture(PathP, MethodGet, [k \in 1..n |-> OK(<<>>, SubBody(k))]),
         GetBytesOK(PathPSub, Body1, <<>>) >> : n \in 1..MaxSubs }

\* The requests sent to the server in SpecSeq.
SeqRequests ==
    { Request(m, p, NoHeader, <<>>, 0, FALSE) :
        m \in {MethodGet, MethodPost}, p \in {PathP, PathPSub, PathOther} }

\* The Seq fixture connection p's request was dispatched to.
SeqOf(p) == fixtures[Lookup(routes, cur[p])]

\* A lock that is always granted: no mutual exclusion.
CanLockRacy(m) == TRUE

\* The lock can be taken when no one holds it.
CanLock(m) == m = 0

\* The sub-fixture chosen at cursor value i, of n: the next one, the last one
\* once the cursor is at the end.
Selected(i, n) == Min(i + 1, n)

\* A cursor that starts over once it is at the end.
AdvanceWrap(i, n) == IF i < n THEN i + 1 ELSE 0

\* The cursor after a call that read i, of n: one further, and it stays at the
\* end.
Advance(i, n) == IF i < n THEN i + 1 ELSE i

\* ServeHTTP dispatches a request to the Seq fixture, whose Run begins.
SeqBegin(p) ==
    /\ pc[p] = "idle"
    /\ served < MaxSeqRequests
    /\ \E req \in SeqRequests :
        /\ IsSeq(fixtures, routes, req)
        /\ cur' = [cur EXCEPT ![p] = req]
    /\ pc' = [pc EXCEPT ![p] = "lock"]
    /\ served' = served + 1
    /\ seqCalls' = seqCalls + 1
    /\ callNo' = [callNo EXCEPT ![p] = seqCalls + 1]
    /\ solo' = [q \in Conns |->
                  IF q = p THEN \A o \in Conns \ {p} : pc[o] = "idle"
                  ELSE IF pc[q] = "idle" THEN solo[q] ELSE FALSE]
    /\ UNCHANGED auxVars
    /\ UNCHANGED <<fixtures, routes, failed, nlogs, last, idx, cursor, mu,
                   seqAdvanced, seqDone, claimed>>

\* Run takes the fixture's lock.
SeqLock(p) ==
    /\ pc[p] = "lock"
    /\ CanLock(mu)
    /\ mu' = p
    /\ pc' = [pc EXCEPT ![p] = "read"]
    /\ UNCHANGED auxVars
    /\ UNCHANGED <<srvVars, cur, idx, callNo, solo, cursor, seqCalls,
                   seqAdvanced, seqDone, claimed>>

\* Run reads the cursor, which selects the sub-fixture.
SeqRead(p) ==
    /\ pc[p] = "read"
    /\ idx' = [idx EXCEPT ![p] = cursor]
    /\ claimed' = IF cursor < Len(SeqOf(p).subs)
                  THEN [claimed EXCEPT ![cursor + 1] = @ + 1]
                  ELSE claimed
    /\ pc' = [pc EXCEPT ![p] = "advance"]
    /\ UNCHANGED auxVars
    /\ UNCHANGED <<srvVars, cur, callNo, solo, cursor, mu, seqCalls,
                   seqAdvanced, seqDone>>

\* Run advances the cursor.
SeqAdvance(p) ==
    /\ pc[p] = "advance"
    /\ cursor' = Advance(idx[p], Len(SeqOf(p).subs))
    /\ seqAdvanced' = seqAdvanced + 1
    /\ pc' = [pc EXCEPT ![p] = "unlock"]
    /\ UNCHANGED auxVars
    /\ UNCHANGED <<srvVars, cur, idx, callNo, solo, mu, seqCalls, seqDone,
                   claimed>>

\* Run releases the lock.
SeqUnlock(p) ==
    /\ pc[p] = "unlock"
    /\ mu' = 0
    /\ pc' = [pc EXCEPT ![p] = "run"]
    /\ UNCHANGED auxVars
    /\ UNCHANGED <<srvVars, cur, idx, callNo, solo, cursor, seqCalls,
                   seqAdvanced, seqDone, claimed>>

\* Run runs the selected sub-fixture on the request and ServeHTTP writes what
\* it returned.
SeqRun(p) ==
    /\ pc[p] = "run"
    /\ LET f == SeqOf(p)
           k == Selected(idx[p], Len(f.subs))
       IN \E copyErr \in BOOLEAN :
            last' = [ AfterRun([ NoObs EXCEPT
                                   !.kind = "run", !.req = cur[p],
                                   !.f = Lookup(routes, cur[p]),
                                   !.failedBefore = failed,
                                   !.failedAfter = failed ],
                               memFixtureRun(f.subs[k], cur[p]), copyErr)
                      EXCEPT !.sub = k, !.callNo = callNo[p],
                             !.solo = solo[p] ]
    /\ failed' = last'.failedAfter
    /\ nlogs' = nlogs + LogLines(last')
    /\ seqDone' = seqDone + 1
    /\ pc' = [pc EXCEPT ![p] = "idle"]
    /\ UNCHANGED auxVars
    /\ UNCHANGED <<fixtures, routes, served, cur, idx, callNo, solo, cursor,
                   mu, seqCalls, seqAdvanced, claimed>>

Init ==
    /\ fixtures \in Configs
    /\ routes = NewServer(fixtures)
    /\ failed = FALSE
    /\ nlogs = 0
    /\ served = 0
    /\ last = NoObs
    /\ InitSeqVars
    /\ InitAuxVars

Next == ServeHTTP(AllRequests, MaxRequests)

Spec == Init /\ [][Next]_vars

InitSeq ==
    /\ fixtures \in SeqConfigs
    /\ routes = NewServer(fixtures)
    /\ failed = FALSE
    /\ nlogs = 0
    /\ served = 0
    /\ last = NoObs
    /\ InitSeqVars
    /\ InitAuxVars

NextSeq ==
    \/ ServeHTTP(SeqRequests, MaxSeqRequests)
    \/ \E p \in Conns : SeqBegin(p)
    \/ \E p \in Conns : SeqLock(p)
    \/ \E p \in Conns : SeqRead(p)
    \/ \E p \in Conns : SeqAdvance(p)
    \/ \E p \in Conns : SeqUnlock(p)
    \/ \E p \in Conns : SeqRun(p)

SpecSeq == InitSeq /\ [][NextSeq]_vars

---------------------------------------------------------------------------
\* standardizePath and the constructors, applied to every route string.

\* The route strings: every string of at most MaxPath of these characters.
PathChars == {"/", "p", "s"}

Paths == UNION { [1..n -> PathChars] : n \in 0..MaxPath }

Constructors ==
    {"Bytes", "BytesOK", "GetBytesOK", "Reader", "File", "FileOK", "GetFileOK"}

\* The fixture constructor c returns for the route.
Construct(c, route) ==
    CASE c = "Bytes" -> Bytes(route, MethodPost, StatusCreated, Body1, <<>>)
      [] c = "BytesOK" -> BytesOK(route, MethodPost, Body1, <<HeaderOpt>>)
      [] c = "GetBytesOK" -> GetBytesOK(route, Body1, <<BodyOpt1>>)
      [] c = "Reader" -> Reader(route, MethodPost, StatusCreated, Body2, <<>>)
      [] c = "File" -> File(route, MethodGet, StatusCreated, Body2, <<>>)
      [] c = "FileOK" -> FileOK(route, MethodPost, Body2, <<HeaderOpt>>)
      [] c = "GetFileOK" -> GetFileOK(route, Body2, <<>>)

\* standardizePath(route), and standardizePath of what it returned.
PathStandardize ==
    /\ built.stage = "input"
    /\ built' = [ built EXCEPT
                    !.stage = "std",
                    !.out = standardizePath(built.route),
                    !.again = standardizePath(standardizePath(built.route)) ]
    /\ UNCHANGED <<srvVars, seqVars, probe>>

\* A constructor called with the route.
PathConstruct ==
    /\ built.stage = "input"
    /\ \E c \in Constructors :
         built' = [ built EXCEPT !.stage = "built", !.ctor = c,
                                 !.fixture = Construct(c, built.route) ]
    /\ UNCHANGED <<srvVars, seqVars, probe>>

InitPath ==
    /\ fixtures = <<>>
    /\ routes = NewServer(fixtures)
    /\ failed = FALSE
    /\ nlogs = 0
    /\ served = 0
    /\ last = NoObs
    /\ InitSeqVars
    /\ built \in { [ NoBuilt EXCEPT !.stage = "input", !.route = p ] :
                     p \in Paths }
    /\ probe = NoProbe

NextPath == PathStandardize \/ PathConstruct

SpecPath == InitPath /\ [][NextPath]_vars

---------------------------------------------------------------------------
\* A fixture's Run called directly on one request object, as
\* TestFixtureAssertions does, and called again on the same object.

HeaderAccept == "Accept"

\* Header multimaps: no Content-Type; "j"; "J"; "x"; the two values "x" and
\* "J"; the one value "Jx"; the one value "xj".
ProbeHeaders ==
    { [k \in HeaderKeys |-> vs] :
        vs \in { <<>>, <<HeaderJson>>, << <<"J">> >>, << <<"x">> >>,
                 << <<"x">>, <<"J">> >>, << <<"J", "x">> >>,
                 << <<"x", "j">> >> } }

\* Every header set and body; the declared length is the body's, or unknown,
\* or 0, or one more than the body's; the body read ends in io.EOF or in an
\* error.
ProbeRequests ==
    UNION { { Request(MethodGet, PathP, h, b, cl, e) :
                h \in ProbeHeaders, cl \in {-1, 0, Len(b), Len(b) + 1},
                e \in BOOLEAN } : b \in Bodies }

\* The assertion lists: one header assertion, one body assertion (the expected
\* bytes empty, a zero byte, a one byte), and lists of two.
ProbeOpts ==
    { <<AssertHeaderMatches(k, v)>> :
        k \in {HeaderKey, HeaderAccept}, v \in {HeaderJson, <<"x">>} } \cup
    { <<AssertBodyContainsBytes(b)>> : b \in {<<>>, <<0>>, <<1>>} } \cup
    { <<HeaderOpt, BodyOpt1>>, <<BodyOpt1, HeaderOpt>>, <<BodyOpt1, BodyOpt0>>,
      <<BodyOpt0, BodyOpt0>> }

ProbeFixtures == { GetBytesOK(PathP, Body1, opts) : opts \in ProbeOpts }

\* fixture.Run(t, req) on the request object as the calls before left it.  A
\* panic unwinds into the caller: no call follows it.
ProbeRun ==
    /\ probe.fix.kind = "mem"
    /\ Len(probe.runs) < MaxRuns
    /\ \A k \in 1..Len(probe.runs) : ~probe.runs[k].panicked
    /\ LET r == memFixtureRun(probe.fix, probe.req) IN
         probe' = [ probe EXCEPT
                      !.fix = r.fix,
                      !.req = r.req,
                      !.runs = Append(@, [ reqBefore |-> probe.req,
                                           reqAfter |-> r.req,
                                           returned |-> r.returned,
                                           resp |-> r.resp,
                                           nerrs |-> r.nerrs,
                                           trace |-> r.trace,
                                           panicked |-> r.panicked,
                                           logged |-> r.logged,
                                           marked |-> r.marked ]) ]
    /\ UNCHANGED <<srvVars, seqVars, built>>

InitAssert ==
    /\ fixtures = <<>>
    /\ routes = NewServer(fixtures)
    /\ failed = FALSE
    /\ nlogs = 0
    /\ served = 0
    /\ last = NoObs
    /\ InitSeqVars
    /\ built = NoBuilt
    /\ probe \in { [ fix |-> f, req0 |-> r, req |-> r, runs |-> <<>> ] :
                     f \in ProbeFixtures, r \in ProbeRequests }

NextAssert == ProbeRun

SpecAssert == InitAssert /\ [][NextAssert]_vars

---------------------------------------------------------------------------
\* The dispatch rule of spec.md, section 4.4, which the claims are stated in.

\* The last call got as far as looking the request up.
Dispatched == last.kind \in {"miss", "run"}

\* The last call ran fixture i.
ServedBy(i) == last.kind = "run" /\ last.f = i

\* No fixture is registered under exactly the request's method and path.
NoExactMatch(req) ==
    \A i \in 1..Len(fixtures) :
        ~(fixtures[i].method = req.method /\ fixtures[i].route = req.path)

---------------------------------------------------------------------------
\* Claims.

\* C1 Dispatch is by path prefix: with one fixture registered at /p with method
\* M, a request with method M is served by it when its path is /p and when its
\* path is /p/s, and gets 404 when its path is /o.
C1_PrefixDispatch ==
    (/\ Dispatched
     /\ Len(fixtures) = 1
     /\ fixtures[1].route = PathP
     /\ fixtures[1].method = last.req.method)
    => /\ last.req.path \in {PathP, PathPSub} => ServedBy(1)
       /\ last.req.path = PathOther =>
            last.kind = "miss" /\ last.wire.code = StatusNotFound

\* C2 Method matching: with one fixture, registered at the request's path, a
\* fixture with method * is selected whatever the request's method, a fixture
\* with an explicit method is selected exactly for requests with that method,
\* and a request with another method gets 404.
C2_WildcardMethod ==
    (/\ Dispatched
     /\ Len(fixtures) = 1
     /\ fixtures[1].route = last.req.path)
    => /\ fixtures[1].method = Wildcard => ServedBy(1)
       /\ fixtures[1].method # Wildcard =>
            /\ ServedBy(1) <=> fixtures[1].method = last.req.method
            /\ fixtures[1].method # last.req.method =>
                 last.kind = "miss" /\ last.wire.code = StatusNotFound

\* C3 First registration wins: a request is never served by a fixture when an
\* earlier argument of NewServer has the same method and the same normalized
\* route.
C3_FirstRegistrationWins ==
    last.kind = "run" =>
        \A j \in 1..(last.f - 1) :
            ~(/\ fixtures[j].method = fixtures[last.f].method
              /\ fixtures[j].route = fixtures[last.f].route)

\* C4, as stated: a request that matches no fixture gets status 404 and an
\* empty body, runs no fixture and no assertion, and does not mark the test
\* failed.
C4_MissEmptyBody ==
    (Dispatched /\ NoExactMatch(last.req)) =>
        /\ last.kind = "miss"
        /\ last.wire = [ code |-> StatusNotFound, body |-> <<>> ]
        /\ last.f = 0 /\ ~last.returned /\ last.trace = <<>>
        /\ last.failedAfter = last.failedBefore

\* C4, amended: a request (with a URL) that matches no fixture gets status 404
\* and the body http.NotFound writes, "404 page not found\n"; no fixture and no
\* assertion runs, nothing is logged and the test is not marked failed.
C4_MissNotFound ==
    (Dispatched /\ NoExactMatch(last.req)) =>
        /\ last.kind = "miss"
        /\ last.wire = [ code |-> StatusNotFound, body |-> NotFoundBody ]
        /\ last.f = 0 /\ ~last.returned /\ last.trace = <<>>
        /\ last.logged = 0 /\ last.marked = 0 /\ ~last.copyFailed
        /\ last.failedAfter = last.failedBefore
        /\ failed = last.failedBefore

\* C4's case: GET /o was answered by a server with no fixture there.
C4_Witness ==
    /\ last.kind = "miss"
    /\ last.req.path = PathOther
    /\ last.wire.code = StatusNotFound

\* The last call was an invocation of the Seq fixture.
SeqServed == last.kind = "run" /\ last.sub > 0

\* The sub-fixtures of the Seq fixture, which NewServer was given first.
SeqSubs == fixtures[1].subs

\* C5, on every finished invocation: the sub-fixture selected is one of 1..N,
\* and an invocation that no other overlapped, the k-th, returned the body of
\* sub-fixture k when k <= N and of sub-fixture N when k > N.
C5_OrderInv ==
    /\ cursor \in 0..Len(SeqSubs)
    /\ SeqServed =>
        /\ last.sub \in 1..Len(SeqSubs)
        /\ last.returned
        /\ last.resp.body = SeqSubs[last.sub].body
        /\ last.solo => last.sub = Min(last.callNo, Len(SeqSubs))

\* C5 Sequential fixture order: invoked one request at a time, the k-th
\* invocation of a Seq fixture with N sub-fixtures returns the body of
\* sub-fixture k for k <= N and of sub-fixture N from then on; the cursor never
\* moves backwards and never selects an index outside 1..N.
C5_SeqOrder == []C5_OrderInv /\ [][cursor' >= cursor]_vars

\* C5's case: with two sub-fixtures, a third or later invocation, overlapped by
\* no other, returned the last sub-fixture's body.
C5_Witness ==
    /\ SeqServed
    /\ last.solo
    /\ Len(SeqSubs) = 2
    /\ last.callNo > 2
    /\ last.resp.body = SubBody(2)

\* The steps of Run between taking and releasing the lock.
InCritical(p) == pc[p] \in {"read", "advance", "unlock"}

\* C6 Sequential fixture under concurrency: whatever the interleaving, at most
\* one invocation is between reading and advancing the cursor, no free slot is
\* handed to two invocations, the cursor is min(m, N) after m invocations
\* advanced it, and min(m, N) after m invocations finished with none in flight.
C6_SeqAtomic ==
    /\ \A p, q \in Conns : (InCritical(p) /\ InCritical(q)) => p = q
    /\ \A k \in DOMAIN claimed : claimed[k] <= 1
    /\ cursor = Min(seqAdvanced, Len(SeqSubs))
    /\ (\A p \in Conns : pc[p] = "idle") => cursor = Min(seqDone, Len(SeqSubs))

\* C6's case: one invocation waits for the lock while another, which already
\* found the cursor advanced, is between reading and advancing it.
C6_Witness ==
    \E p, q \in Conns :
        /\ pc[p] = "lock"
        /\ pc[q] = "advance"
        /\ idx[q] >= 1

\* The response fixture f is configured with.
Configured(f) == [ code |-> f.responseCode, body |-> f.body ]

\* Some assertion of the last call returned an error.
SomeAssertFailed ==
    \E i \in 1..Len(last.trace) : last.trace[i].outcome = "fail"

\* C7 Assertion failure is non-fatal: when an assertion of the matched fixture
\* fails, the test is marked failed, a diagnostic is logged, and Run returns,
\* and the server writes, the configured status and body; when all pass, the
\* request does not mark the test failed.
C7_AssertFailureNonFatal ==
    (last.kind = "run" /\ last.sub = 0) =>
        /\ SomeAssertFailed =>
            /\ last.marked = 1 /\ last.logged = 1 /\ last.failedAfter
            /\ last.returned
            /\ last.resp = Configured(fixtures[last.f])
            /\ last.wire.code = fixtures[last.f].responseCode
            /\ ~last.copyFailed => last.wire.body = fixtures[last.f].body
        /\ (\A i \in 1..Len(last.trace) : last.trace[i].outcome = "ok") =>
            /\ last.marked = 0 /\ last.logged = 0

\* C8 Logiclessness of a static fixture: every invocation of a memFixture,
\* whatever the request and whatever was served before, returns the status and
\* the body the fixture was constructed with, and leaves the fixture as it was.
C8_StaticLogicless ==
    /\ fixtures \in Configs
    /\ (last.kind = "run" /\ last.sub = 0) =>
        /\ last.returned
        /\ last.resp = Configured(fixtures[last.f])

\* The body assertions the last call ran to an outcome.
BodyAssertsRun ==
    { i \in 1..Len(last.trace) :
        /\ fixtures[last.f].assertions[last.trace[i].i].kind = "body"
        /\ last.trace[i].outcome # "panic" }

\* C9 Replay safety of body assertions: after the body assertions of a call
\* have run, reading the request's body yields the bytes it held before.
C9_BodyReplaySafe ==
    (last.kind = "run" /\ last.sub = 0 /\ BodyAssertsRun # {}) =>
        last.reqAfter.body = last.req.body

\* C10 Run-all-then-aggregate: every invocation executes every assertion of
\* the fixture once, in the constructor's order, whatever the earlier ones
\* returned, and reports the failures as one log line and one mark, or nothing
\* when none failed.
C10_RunAllThenAggregate ==
    (last.kind = "run" /\ last.sub = 0) =>
        /\ Len(last.trace) = Len(fixtures[last.f].assertions)
        /\ \A i \in 1..Len(last.trace) : last.trace[i].i = i
        /\ last.logged = (IF SomeAssertFailed THEN 1 ELSE 0)
        /\ last.marked = (IF SomeAssertFailed THEN 1 ELSE 0)

---------------------------------------------------------------------------
\* Path normalization.

\* C11: standardizePath(p) starts with "/" for every string p, is "/" for the
\* empty string, is p itself when p starts with "/", and applied to its own
\* result changes nothing; and the route of a fixture any constructor returns
\* is the normalized route, so it starts with "/".
C11_PathNormalized ==
    /\ built.stage = "std" =>
         /\ Len(built.out) > 0 /\ built.out[1] = "/"
         /\ built.route = <<>> => built.out = <<"/">>
         /\ (Len(built.route) > 0 /\ built.route[1] = "/") =>
              built.out = built.route
         /\ (Len(built.route) > 0 /\ built.route[1] # "/") =>
              built.out = <<"/">> \o built.route
         /\ built.again = built.out
    /\ built.stage = "built" =>
         /\ Len(Route(built.fixture)) > 0 /\ Route(built.fixture)[1] = "/"
         /\ \/ Route(built.fixture) = built.route
            \/ Route(built.fixture) = <<"/">> \o built.route

\* A route without a leading slash went through a constructor.
C11_Witness ==
    /\ built.stage = "built" /\ built.ctor = "GetFileOK"
    /\ built.route = <<"p", "/", "s">>
    /\ Route(built.fixture) = <<"/", "p", "/", "s">>

---------------------------------------------------------------------------
\* The header assertion.

\* strings.ToLower, on the letters used here
ToLower(str) == [i \in 1..Len(str) |-> Fold(str[i])]

\* The header assertions that ran in call k of the probe, as positions in the
\* call's trace.
HeaderSteps(k) ==
    { j \in 1..Len(probe.runs[k].trace) :
        probe.fix.assertions[probe.runs[k].trace[j].i].kind = "header" }

\* Every assertion of the probed fixture is a header assertion.
HeaderOnly ==
    \A i \in 1..Len(probe.fix.assertions) :
        probe.fix.assertions[i].kind = "header"

\* Some value of the request's header a.key is a.value, cases aside.
SomeValueEquals(a) ==
    LET vals == HeaderValues(probe.req0, a.key) IN
    \E i \in 1..Len(vals) : ToLower(vals[i]) = ToLower(a.value)

\* Some value of the request's header a.key contains a.value, cases aside.
SomeValueContains(a) ==
    LET vals == HeaderValues(probe.req0, a.key) IN
    \E i \in 1..Len(vals) : Contains(ToLower(vals[i]), ToLower(a.value))

\* C12 as stated: AssertHeaderMatches(key, value) passes exactly when some
\* value of the header contains value as a substring, cases aside.
C12_HeaderSubstring ==
    \A k \in 1..Len(probe.runs) : \A j \in HeaderSteps(k) :
        LET t == probe.runs[k].trace[j] IN
        t.outcome = IF SomeValueContains(probe.fix.assertions[t.i])
                    THEN "ok" ELSE "fail"

\* C12, amended: AssertHeaderMatches(key, value) passes exactly when some value
\* of the request's header key equals value, cases aside; it fails when the
\* header is absent or no value is equal; and it leaves the request as it was.
C12_HeaderEqualFold ==
    \A k \in 1..Len(probe.runs) :
        /\ \A j \in HeaderSteps(k) :
             LET t == probe.runs[k].trace[j] IN
             t.outcome = IF SomeValueEquals(probe.fix.assertions[t.i])
                         THEN "ok" ELSE "fail"
        /\ HeaderOnly => probe.runs[k].reqAfter = probe.runs[k].reqBefore

\* A header assertion, run once, passed on the second of the header's two
\* values, which differs from the expected one in case only.
C12_Witness ==
    /\ HeaderOnly
    /\ Len(probe.runs) = 1
    /\ probe.fix.assertions[1] = AssertHeaderMatches(HeaderKey, HeaderJson)
    /\ HeaderValues(probe.req0, HeaderKey) = << <<"x">>, <<"J">> >>
    /\ probe.runs[1].trace = << [i |-> 1, outcome |-> "ok"] >>
    /\ probe.runs[1].reqAfter = probe.req0

---------------------------------------------------------------------------
\* Repeating an assertion.

\* The outcomes of the assertions in call k of the probe, in order.
Outcomes(k) ==
    [ j \in 1..Len(probe.runs[k].trace) |-> probe.runs[k].trace[j].outcome ]

\* C13: the same assertion, or the same fixture's whole assertion list, run
\* twice in a row on the same request gives the same outcomes both times,
\* whatever the kind of assertion and the expected bytes.
C13_Repeatable ==
    \A k \in 2..Len(probe.runs) :
        /\ Outcomes(k) = Outcomes(k - 1)
        /\ probe.runs[k].marked = probe.runs[k - 1].marked

---------------------------------------------------------------------------
\* The server after failed requests.

\* What a server just built from the same fixtures puts on the connection for
\* the last request.
FreshWire ==
    Handle(fixtures, NewServer(fixtures), FALSE, last.req, last.copyFailed).wire

\* The fixtures and the route table are as NewServer built them; and a request
\* handled after a request that failed is answered as by a fresh server: 404
\* when nothing is registered for it, the registered fixture's status and body
\* when its Run returns.
C14_AnsweredAsFresh ==
    /\ fixtures \in Configs
    /\ routes = NewServer(fixtures)
    /\ (served >= 2 /\ last.failedBefore /\ Dispatched) =>
        /\ last.wire = FreshWire
        /\ last.failedAfter
        /\ NoExactMatch(last.req) =>
            /\ last.kind = "miss"
            /\ last.wire = NotFound
        /\ ~NoExactMatch(last.req) =>
            /\ last.kind = "run"
            /\ fixtures[last.f].method = last.req.method
            /\ fixtures[last.f].route = last.req.path
            /\ last.returned =>
                /\ last.wire.code = fixtures[last.f].responseCode
                /\ ~last.copyFailed => last.wire.body = fixtures[last.f].body

---------------------------------------------------------------------------
\* The body assertion and the declared length.

\* C15: whatever the request's body and declared length (unknown, -1, or not
\* the body's length), every assertion of a call ends in a pass or a failure,
\* none panics, and Run returns the fixture's response.
C15_BodyAssertTerminates ==
    \A k \in 1..Len(probe.runs) :
        /\ ~probe.runs[k].panicked
        /\ \A j \in 1..Len(probe.runs[k].trace) :
             probe.runs[k].trace[j].outcome \in {"ok", "fail"}
        /\ Len(probe.runs[k].trace) = Len(probe.fix.assertions)
        /\ probe.runs[k].returned
        /\ probe.runs[k].resp = Configured(probe.fix)

============================================================================
